---- MODULE Spec2Model ----
(***************************************************************************)
(* Model of app.py: the COVID statistics service.                          *)
(*                                                                         *)
(*   clean_and_transform_data   the Normalizer, a pure function            *)
(*   store_data_in_db           the Reconciler, an ORM session working on  *)
(*                              the covid_records table of a SQLite file   *)
(*   fetch_and_store            the ingestion route, one request per       *)
(*                              worker thread, each with its own session   *)
(*                                                                         *)
(* Python values are tagged records [k |-> kind, v |-> payload]; a str is  *)
(* a sequence of one-character strings, so that strip(), slicing and       *)
(* upper() are computed and not assumed.                                   *)
(***************************************************************************)
EXTENDS Integers, Sequences, FiniteSets, TLC

VARIABLES
    raw_input,      \* NormSpec: the argument of clean_and_transform_data
    cleaned_output, \* NormSpec: what the call produced (a return or a raise)
    norm_pc,        \* NormSpec: "call" before the call, "done" after it
    db,             \* committed rows of covid_records, in rowid order
    txn,            \* per request: the open write transaction's working copy
    pending,        \* per request: the session's unflushed objects
    pc,             \* per request: "idle" or "store" (inside store_data_in_db)
    records,        \* per request: the argument of store_data_in_db
    idx,            \* per request: position of the for loop in records
    count,          \* per request: the local variable count
    log             \* the requests begun and the responses sent, in order

vars == <<raw_input, cleaned_output, norm_pc, db, txn, pending, pc, records, idx, count, log>>

normVars == <<raw_input, cleaned_output, norm_pc>>

sysVars == <<db, txn, pending, pc, records, idx, count, log>>

-----------------------------------------------------------------------------
(* Python values *)

PyNone == [k |-> "none"]

PyInt(n) == [k |-> "int", v |-> n]

PyFloat(n) == [k |-> "float", v |-> n]

PyStr(s) == [k |-> "str", v |-> s]

PyDict(f) == [k |-> "dict", v |-> f]

PyList(s) == [k |-> "list", v |-> s]

EmptyDict == PyDict([x \in {} |-> PyNone])

\* bool(x): the truth value Python's "or" and "not" test
Truthy(x) ==
    CASE x.k = "none" -> FALSE
      [] x.k \in {"int", "float"} -> x.v # 0
      [] x.k \in {"str", "list"} -> Len(x.v) > 0
      [] x.k = "dict" -> DOMAIN x.v # {}

\* dict.get(key, default) on a value already known to be a dict
DictGet(d, key, default) == IF key \in DOMAIN d.v THEN d.v[key] ELSE default

\* variant: the default is never substituted
OrElseIdentity(x, default) == x

\* the "x or y" expression

OrElse(x, default) == IF Truthy(x) THEN x ELSE default

-----------------------------------------------------------------------------
(* str methods *)

Whitespace == {" ", "\t", "\n"}

LowerLetters == <<"a","b","c","d","e","f","g","h","i","j","k","l","m",
                  "n","o","p","q","r","s","t","u","v","w","x","y","z">>

UpperLetters == <<"A","B","C","D","E","F","G","H","I","J","K","L","M",
                  "N","O","P","Q","R","S","T","U","V","W","X","Y","Z">>

UpperChar(c) ==
    IF \E i \in DOMAIN LowerLetters : LowerLetters[i] = c
    THEN UpperLetters[CHOOSE i \in DOMAIN LowerLetters : LowerLetters[i] = c]
    ELSE c

\* s.upper()
Upper(s) == [i \in 1..Len(s) |-> UpperChar(s[i])]

\* s[:n]
Prefix(s, n) == SubSeq(s, 1, IF Len(s) < n THEN Len(s) ELSE n)

\* s.strip()
Strip(s) ==
    LET keep == {i \in 1..Len(s) : s[i] \notin Whitespace}
    IN  IF keep = {} THEN <<>>
        ELSE LET lo == CHOOSE i \in keep : \A j \in keep : i <= j
                 hi == CHOOSE i \in keep : \A j \in keep : j <= i
             IN  SubSeq(s, lo, hi)

All == <<"A","l","l">>

Unknown == <<"U","n","k","n","o","w","n">>

-----------------------------------------------------------------------------
(* clean_and_transform_data *)

\* raw_data['response'][:500]
RecordLimit == 500

\* variant: "Unknown" is not skipped
SkipNamesOnlyAll == {All}

\* the names of the "Skip invalid entries" test

SkipNames == {All, Unknown}

Raise == [k |-> "raise"]

Skip == [k |-> "skip"]

Ok(x) == [k |-> "ok", v |-> x]

Return(x) == [k |-> "return", v |-> x]

\* The body of the try block for one record: Skip for "continue", Raise for an
\* exception (.get or .strip on a value that has no such method), Ok(cleaned_record).
CleanRecord(record) ==
    IF record.k # "dict" THEN Raise
    ELSE
    LET country_name == DictGet(record, "country", PyStr(Unknown)) IN
    IF country_name.k = "str" /\ country_name.v \in SkipNames THEN Skip
    ELSE
    LET cases == DictGet(record, "cases", EmptyDict)
        deaths == DictGet(record, "deaths", EmptyDict)
        tests == DictGet(record, "tests", EmptyDict)
    IN
    IF country_name.k # "str" THEN Raise
    ELSE IF cases.k # "dict" \/ deaths.k # "dict" \/ tests.k # "dict" THEN Raise
    ELSE Ok([
        country |-> PyStr(Strip(country_name.v)),
        country_code |-> PyStr(Upper(Prefix(DictGet(record, "country", PyStr(<<>>)).v, 3))),
        continent |-> DictGet(record, "continent", PyStr(Unknown)),
        population |-> OrElse(DictGet(record, "population", PyNone), PyInt(0)),
        total_cases |-> OrElse(DictGet(cases, "total", PyNone), PyInt(0)),
        new_cases |-> OrElse(DictGet(cases, "new", PyNone), PyInt(0)),
        total_deaths |-> OrElse(DictGet(deaths, "total", PyNone), PyInt(0)),
        new_deaths |-> OrElse(DictGet(deaths, "new", PyNone), PyInt(0)),
        total_recovered |-> OrElse(DictGet(cases, "recovered", PyNone), PyInt(0)),
        active_cases |-> OrElse(DictGet(cases, "active", PyNone), PyInt(0)),
        critical_cases |-> OrElse(DictGet(cases, "critical", PyNone), PyInt(0)),
        cases_per_million |-> OrElse(DictGet(cases, "1M_pop", PyNone), PyFloat(0)),
        deaths_per_million |-> OrElse(DictGet(deaths, "1M_pop", PyNone), PyFloat(0)),
        total_tests |-> OrElse(DictGet(tests, "total", PyNone), PyInt(0)),
        tests_per_million |-> OrElse(DictGet(tests, "1M_pop", PyNone), PyFloat(0)) ])

\* variant: no except clause, the exception leaves the loop
TryRecordNoExcept(record) == CleanRecord(record)

\* try: ... except Exception: continue

TryRecord(record) ==
    LET r == CleanRecord(record) IN IF r.k = "raise" THEN Skip ELSE r

\* The iterations of the for loop over rs[lo..hi], in order: the records they
\* append, or Raise when an exception leaves an iteration (the iterations
\* after it do not run). A range of several iterations is its first half
\* followed by its second half.
RECURSIVE ForEachRecord(_, _, _)
ForEachRecord(rs, lo, hi) ==
    IF lo > hi THEN Return(<<>>)
    ELSE IF lo = hi
    THEN LET r == TryRecord(rs[lo]) IN
         IF r.k = "raise" THEN Raise
         ELSE IF r.k = "ok" THEN Return(<<r.v>>) ELSE Return(<<>>)
    ELSE LET mid == (lo + hi) \div 2
             first == ForEachRecord(rs, lo, mid)
         IN  IF first.k = "raise" THEN Raise
             ELSE LET second == ForEachRecord(rs, mid + 1, hi) IN
                  IF second.k = "raise" THEN Raise
                  ELSE Return(first.v \o second.v)

\* the elements a for loop over x[:RecordLimit] sees: of a str, its characters
Sliced(x) ==
    IF x.k = "str"
    THEN [i \in 1..Len(Prefix(x.v, RecordLimit)) |-> PyStr(<<x.v[i]>>)]
    ELSE Prefix(x.v, RecordLimit)

\* Return(list of cleaned records), or Raise when the subscript or the slice
\* of raw_data['response'] fails, which no try block encloses.
clean_and_transform_data(raw_data) ==
    IF ~Truthy(raw_data) THEN Return(<<>>)
    ELSE IF raw_data.k = "list"
         THEN IF \E i \in 1..Len(raw_data.v) : raw_data.v[i] = PyStr(<<"r","e","s","p","o","n","s","e">>)
              THEN Raise ELSE Return(<<>>)
    ELSE IF "response" \notin DOMAIN raw_data.v THEN Return(<<>>)
    ELSE LET response == raw_data.v["response"] IN
         IF response.k \notin {"list", "str"} THEN Raise
         ELSE LET rs == Sliced(response) IN ForEachRecord(rs, 1, Len(rs))

-----------------------------------------------------------------------------
(* Upstream payloads explored *)

Peru == <<"P","e","r","u">>

PaddedPeru == <<" ","P","e","r","u"," ">>

Chad == <<"C","h","a","d">>

Asia == <<"A","s","i","a">>

\* the values a numeric sub-field is given: null, zero, a number, or the
\* signed string the upstream API uses for its "new" figures
PlusThree == PyStr(<<"+","3">>)

\* a cases/deaths/tests object whose every sub-field is x
Group(x) ==
    [f \in {"total", "new", "recovered", "active", "critical", "1M_pop"} |-> x]

\* the statistics part of an entry, by shape
Stats(shape) ==
    CASE shape = "absent" -> [x \in {} |-> PyNone]
      [] shape = "nullGroups" ->
            [cases |-> PyNone, deaths |-> PyDict(Group(PyInt(1))), tests |-> EmptyDict]
      [] shape = "listGroups" ->
            [cases |-> EmptyDict, deaths |-> PyList(<<>>), tests |-> EmptyDict]
      [] shape = "nullFields" ->
            [continent |-> PyNone, population |-> PyNone, cases |-> PyDict(Group(PyNone)),
             deaths |-> PyDict(Group(PyNone)), tests |-> PyDict(Group(PyNone))]
      [] shape = "zeroFields" ->
            [continent |-> PyStr(Asia), population |-> PyInt(0), cases |-> PyDict(Group(PyInt(0))),
             deaths |-> EmptyDict, tests |-> PyDict(Group(PyFloat(0)))]
      [] shape = "setFields" ->
            [continent |-> PyStr(Asia), population |-> PyInt(7),
             cases |-> PyDict([Group(PyInt(9)) EXCEPT !["new"] = PlusThree]),
             deaths |-> PyDict(Group(PyInt(2))), tests |-> PyDict(Group(PyInt(5)))]

Shapes == {"absent", "nullGroups", "listGroups", "nullFields", "zeroFields", "setFields"}

\* stands for a key the entry does not have
Absent == [k |-> "absent"]

\* an entry of the response list: a dict with the country field c (Absent: no
\* such key) and the statistics of the shape
Entry(c, shape) ==
    PyDict(IF c = Absent THEN Stats(shape) ELSE ("country" :> c) @@ Stats(shape))

CountryFields ==
    {Absent, PyNone, PyInt(5), PyStr(<<>>), PyStr(All), PyStr(Unknown),
     PyStr(Peru), PyStr(PaddedPeru), PyStr(Chad)}

Entries ==
    {Entry(c, "setFields") : c \in CountryFields}
    \cup {Entry(c, sh) : c \in {PyStr(Peru), PyStr(Chad)}, sh \in Shapes}
    \cup {PyNone, PyStr(Peru)}

\* longest response list enumerated entry by entry
MaxEntries == 2

\* entries past RecordLimit in the long response lists
MaxOverflow == 2

RECURSIVE SeqsUpTo(_, _)
SeqsUpTo(S, n) ==
    IF n = 0 THEN {<<>>}
    ELSE LET shorter == SeqsUpTo(S, n - 1)
         IN  shorter \cup {Append(s, x) : s \in {t \in shorter : Len(t) = n - 1}, x \in S}

LongEntries == {Entry(PyStr(Peru), "setFields"), Entry(PyStr(Chad), "zeroFields"),
                Entry(PyStr(All), "setFields"), Entry(PyStr(Chad), "nullGroups")}

\* response lists of RecordLimit - 1 entries or more: a up to the entry before
\* the limit, b at the limit, c past it
LongLists ==
    {[i \in 1..(RecordLimit - 1 + d) |->
         IF i < RecordLimit - 1 THEN a ELSE IF i = RecordLimit - 1 THEN b ELSE c] :
       a \in LongEntries, b \in LongEntries, c \in LongEntries, d \in 0..(MaxOverflow + 1)}

ResponseLists == SeqsUpTo(Entries, MaxEntries) \cup LongLists

Payloads ==
    {PyNone, EmptyDict, PyList(<<>>), PyDict([errors |-> PyList(<<>>)]),
     PyDict([response |-> PyNone]), PyDict([response |-> PyInt(0)]),
     PyDict([response |-> PyStr(Peru)])}
    \cup {PyDict([response |-> PyList(rs)]) : rs \in ResponseLists}

-----------------------------------------------------------------------------
(* The covid_records table, the sessions and the requests *)

\* the worker threads serving /api/fetch-data, each with its own session
Threads == {"t1", "t2"}

\* requests served in one behaviour
MaxRequests == 2

NoTxn == [active |-> FALSE, rows |-> <<>>]

\* after db.create_all() on a new database file, every thread idle
SysStart ==
    /\ db = <<>>
    /\ log = <<>>
    /\ txn = [t \in Threads |-> NoTxn]
    /\ pending = [t \in Threads |-> <<>>]
    /\ pc = [t \in Threads |-> "idle"]
    /\ records = [t \in Threads |-> <<>>]
    /\ idx = [t \in Threads |-> 1]
    /\ count = [t \in Threads |-> 0]

\* datetime.utcnow(): the clock advances with every request begun or answered
utcnow == Len(log)

\* SQLite admits one write transaction at a time
CanWrite(t) == \A u \in Threads \ {t} : ~txn[u].active

\* what a SELECT of thread t reads: its own transaction's rows, else the
\* committed ones
View(t) == IF txn[t].active THEN txn[t].rows ELSE db

\* variant: the lookup never finds a row
FirstByCountryNever(rows, c) == 0

\* CovidRecord.query.filter_by(country=c).first(): the id of the first row
\* in rowid order, 0 for None

FirstByCountry(rows, c) ==
    IF \E i \in 1..Len(rows) : rows[i].data.country = c
    THEN CHOOSE i \in 1..Len(rows) :
             /\ rows[i].data.country = c
             /\ \A j \in 1..(i - 1) : rows[j].data.country # c
    ELSE 0

\* variant: an UPDATE without its WHERE clause
ApplyOpAllRows(rows, op) ==
    IF op.op = "insert"
    THEN Append(rows, [id |-> Len(rows) + 1, data |-> op.data, date_recorded |-> utcnow])
    ELSE [i \in 1..Len(rows) |->
             [id |-> i, data |-> op.data, date_recorded |-> op.date_recorded]]

\* the statement the flush emits for one object: INSERT (the id is the next
\* rowid, date_recorded its column default) or UPDATE ... WHERE id = op.id
ApplyOp(rows, op) ==
    IF op.op = "insert"
    THEN Append(rows, [id |-> Len(rows) + 1, data |-> op.data, date_recorded |-> utcnow])
    ELSE [rows EXCEPT ![op.id] =
             [id |-> op.id, data |-> op.data, date_recorded |-> op.date_recorded]]

RECURSIVE Flush(_, _)
Flush(rows, ops) ==
    IF ops = <<>> THEN rows ELSE Flush(ApplyOp(rows, Head(ops)), Tail(ops))

\* the session's transaction after a flush of its pending objects (autoflush
\* before a query, or the flush of commit)
Flushed(t) ==
    IF pending[t] = <<>> THEN txn[t]
    ELSE [active |-> TRUE, rows |-> Flush(View(t), pending[t])]

\* variant: the except branch publishes what the session wrote
RollbackKeepsWrites(t) == IF Flushed(t).active THEN Flushed(t).rows ELSE db

\* the committed rows after db.session.rollback()
Rollback(t) == db

-----------------------------------------------------------------------------
(* fetch_covid_data and fetch_and_store *)

SysEntries ==
    [peruSet |-> Entry(PyStr(Peru), "setFields"),
     peruNull |-> Entry(PyStr(Peru), "nullFields"),
     peruPadded |-> Entry(PyStr(PaddedPeru), "zeroFields"),
     chad |-> Entry(PyStr(Chad), "absent"),
     all |-> Entry(PyStr(All), "setFields"),
     broken |-> Entry(PyStr(Chad), "nullGroups")]

SysPayloads ==
    {EmptyDict,
     PyDict([errors |-> PyList(<<>>)]),
     PyDict([response |-> PyNone]),
     PyDict([response |-> PyList(<<SysEntries.peruSet>>)]),
     PyDict([response |-> PyList(<<SysEntries.peruNull, SysEntries.chad>>)]),
     PyDict([response |-> PyList(<<SysEntries.peruPadded, SysEntries.all, SysEntries.peruSet>>)]),
     PyDict([response |-> PyList(<<SysEntries.broken, SysEntries.chad>>)])}

\* what requests.get meets: an exception of the transport, a status that
\* raise_for_status rejects, or a body
Upstream ==
    {[kind |-> "transport_error"], [kind |-> "http_error"]}
    \cup {[kind |-> "ok", json |-> j] : j \in SysPayloads}

fetch_covid_data(up) == IF up.kind = "ok" THEN up.json ELSE PyNone

\* variant: the fetch result is not tested
FetchFailedNever(raw_data) == FALSE

\* "if not raw_data" in fetch_and_store

FetchFailed(raw_data) == ~Truthy(raw_data)

ErrorResponse(msg) == [status |-> 500, body |-> [error |-> msg]]

SuccessResponse(stored_count) ==
    [status |-> 200, body |-> [success |-> TRUE, records_count |-> stored_count]]

BeginEvent(t, up) == [ev |-> "begin", thread |-> t, upstream |-> up, db |-> db]

EndEvent(t, outcome, batch, resp, rows) ==
    [ev |-> "end", thread |-> t, outcome |-> outcome, batch |-> batch,
     count |-> count[t], response |-> resp, db |-> rows]

Begun == Cardinality({i \in 1..Len(log) : log[i].ev = "begin"})

\* A request arrives: the fetch, the fetch check and the Normalizer run on
\* the thread's own data; the request is answered here when the fetch failed
\* or the Normalizer raised, and otherwise enters store_data_in_db.
Begin(t) ==
    /\ pc[t] = "idle"
    /\ Begun < MaxRequests
    /\ \E up \in Upstream :
         LET raw_data == fetch_covid_data(up)
             cleaned == clean_and_transform_data(raw_data)
         IN  IF FetchFailed(raw_data)
             THEN /\ log' = log \o <<BeginEvent(t, up),
                                     EndEvent(t, "fetch_failed", <<>>,
                                              ErrorResponse("Failed to fetch data from API"), db)>>
                  /\ UNCHANGED <<pc, records, idx, count>>
             ELSE IF cleaned.k = "raise"
             THEN /\ log' = log \o <<BeginEvent(t, up),
                                     EndEvent(t, "raised", <<>>, ErrorResponse("'NoneType' object is not subscriptable"), db)>>
                  /\ UNCHANGED <<pc, records, idx, count>>
             ELSE /\ log' = Append(log, BeginEvent(t, up))
                  /\ pc' = [pc EXCEPT ![t] = "store"]
                  /\ records' = [records EXCEPT ![t] = cleaned.v]
                  /\ idx' = [idx EXCEPT ![t] = 1]
                  /\ count' = [count EXCEPT ![t] = 0]
    /\ UNCHANGED <<db, txn, pending, normVars>>

\* One iteration of the for loop of store_data_in_db: the query (after the
\* autoflush of what the previous iteration left pending), then the update
\* of the row found or the add of a new one, and count += 1.
Upsert(t) ==
    /\ pc[t] = "store"
    /\ idx[t] <= Len(records[t])
    /\ pending[t] = <<>> \/ CanWrite(t)
    /\ LET record == records[t][idx[t]]
           flushed == Flushed(t)
           existing == FirstByCountry(IF flushed.active THEN flushed.rows ELSE db,
                                      record.country)
       IN  /\ txn' = [txn EXCEPT ![t] = flushed]
           /\ pending' = [pending EXCEPT ![t] =
                  IF existing # 0
                  THEN <<[op |-> "update", id |-> existing, data |-> record,
                          date_recorded |-> utcnow]>>
                  ELSE <<[op |-> "insert", data |-> record]>>]
    /\ idx' = [idx EXCEPT ![t] = idx[t] + 1]
    /\ count' = [count EXCEPT ![t] = count[t] + 1]
    /\ UNCHANGED <<db, pc, records, log, normVars>>

\* db.session.commit() after the loop, return count, and the response
Commit(t) ==
    /\ pc[t] = "store"
    /\ idx[t] > Len(records[t])
    /\ pending[t] = <<>> \/ CanWrite(t)
    /\ LET rows == IF Flushed(t).active THEN Flushed(t).rows ELSE db
       IN  /\ db' = rows
           /\ log' = Append(log, EndEvent(t, "committed", records[t],
                                          SuccessResponse(count[t]), rows))
    /\ txn' = [txn EXCEPT ![t] = NoTxn]
    /\ pending' = [pending EXCEPT ![t] = <<>>]
    /\ pc' = [pc EXCEPT ![t] = "idle"]
    /\ records' = [records EXCEPT ![t] = <<>>]
    /\ idx' = [idx EXCEPT ![t] = 1]
    /\ count' = [count EXCEPT ![t] = 0]
    /\ UNCHANGED normVars

\* A statement of the loop or the commit raises (the database is locked, the
\* disk fails): the except branch rolls back, returns 0, and the response
\* reports 0 records.
StorageError(t) ==
    /\ pc[t] = "store"
    /\ LET rows == Rollback(t)
       IN  /\ db' = rows
           /\ log' = Append(log, EndEvent(t, "rolled_back", records[t],
                                          SuccessResponse(0), rows))
    /\ txn' = [txn EXCEPT ![t] = NoTxn]
    /\ pending' = [pending EXCEPT ![t] = <<>>]
    /\ pc' = [pc EXCEPT ![t] = "idle"]
    /\ records' = [records EXCEPT ![t] = <<>>]
    /\ idx' = [idx EXCEPT ![t] = 1]
    /\ count' = [count EXCEPT ![t] = 0]
    /\ UNCHANGED normVars

Init ==
    /\ SysStart
    /\ raw_input = PyNone
    /\ cleaned_output = Raise
    /\ norm_pc = "call"

Next ==
    \E t \in Threads : Begin(t) \/ Upsert(t) \/ Commit(t) \/ StorageError(t)

Spec == Init /\ [][Next]_vars

-----------------------------------------------------------------------------
(* Reading the log *)

Ends(outcome) == {i \in 1..Len(log) : log[i].ev = "end" /\ log[i].outcome = outcome}

\* the begin event of the request that end event i answers
BeginOf(i) ==
    CHOOSE j \in 1..(i - 1) :
        /\ log[j].ev = "begin" /\ log[j].thread = log[i].thread
        /\ \A m \in (j + 1)..(i - 1) : ~(log[m].ev = "begin" /\ log[m].thread = log[i].thread)

Countries(batch) == {batch[m].country : m \in 1..Len(batch)}

RowsOf(rows, c) == {m \in 1..Len(rows) : rows[m].data.country = c}

\* the last record of the batch for country c
LastFor(batch, c) ==
    batch[CHOOSE m \in 1..Len(batch) :
              /\ batch[m].country = c
              /\ \A n \in (m + 1)..Len(batch) : batch[n].country # c]

NumericFields ==
    {"population", "total_cases", "new_cases", "total_deaths", "new_deaths",
     "total_recovered", "active_cases", "critical_cases", "total_tests",
     "cases_per_million", "deaths_per_million", "tests_per_million"}

-----------------------------------------------------------------------------
(* Claims about the Record Store and the ingestion, under Spec *)

\* C1: no two stored rows have the same country value, in every reachable
\* state of the store.
C1_CountryUnique ==
    \A i, j \in 1..Len(db) : i # j => db[i].data.country # db[j].data.country

\* C2 as stated: after a storage error inside store_data_in_db the stored rows
\* are exactly those held when the invocation started, and 0 is returned.
C2_RowsAsAtStart ==
    \A i \in Ends("rolled_back") :
        /\ log[i].response.body.records_count = 0
        /\ log[i].db = log[BeginOf(i)].db

\* C2, amended: when a storage error is raised inside store_data_in_db the
\* batch is rolled back and 0 is returned: the error leaves the stored rows
\* as they were, which are the rows held when the invocation started unless
\* another request committed in between, and the response reports 0 records.
C2_ErrorRollsBack ==
    \A i \in Ends("rolled_back") :
        /\ log[i].response.body.records_count = 0
        /\ log[i].db = log[i - 1].db
        /\ (\A m \in Ends("committed") : ~(BeginOf(i) < m /\ m < i))
               => log[i].db = log[BeginOf(i)].db

\* an error after two iterations (so after a flush of the first one's write)
\* of a request that found rows in the store
C2_Witness ==
    \E i \in Ends("rolled_back") :
        /\ log[i].count >= 2
        /\ Len(log[i].db) > 0
        /\ log[i].db = log[BeginOf(i)].db

\* C3: a payload ingested twice in succession, both runs committing, leaves
\* the rows (ids and every field other than date_recorded) as the first run
\* left them; the second run inserts no row.
C3_Idempotent ==
    \A i \in 1..(Len(log) - 3) :
        ( /\ log[i].ev = "begin" /\ log[i + 2].ev = "begin"
          /\ log[i + 2].upstream = log[i].upstream
          /\ i + 1 \in Ends("committed") /\ log[i + 1].thread = log[i].thread
          /\ i + 3 \in Ends("committed") /\ log[i + 3].thread = log[i + 2].thread )
        => /\ Len(log[i + 3].db) = Len(log[i + 1].db)
           /\ \A m \in 1..Len(log[i + 1].db) :
                  /\ log[i + 3].db[m].id = log[i + 1].db[m].id
                  /\ log[i + 3].db[m].data = log[i + 1].db[m].data

\* the same non-empty batch committed twice in succession
C3_Witness ==
    \E i \in 1..(Len(log) - 3) :
        /\ log[i].ev = "begin" /\ log[i + 2].ev = "begin"
        /\ log[i + 2].upstream = log[i].upstream
        /\ i + 1 \in Ends("committed") /\ i + 3 \in Ends("committed")
        /\ Len(log[i + 3].batch) >= 2
        /\ Len(db) >= 2

\* C4: when two invocations that overlap in time both commit batches holding
\* the same country, the store then holds that country as a single row, with
\* the fields the later commit wrote.
C4_LastCommitWins ==
    \A i, j \in Ends("committed") :
        (i < j /\ log[i].thread # log[j].thread /\ BeginOf(j) < i)
        => \A c \in Countries(log[i].batch) \cap Countries(log[j].batch) :
               /\ Cardinality(RowsOf(log[j].db, c)) = 1
               /\ \A m \in RowsOf(log[j].db, c) :
                      log[j].db[m].data = LastFor(log[j].batch, c)

\* C7: every numeric field of every cleaned record, and so of every row
\* written or committed, holds a value and never None.
C7_NoNullNumbers ==
    /\ \A t \in Threads : \A m \in 1..Len(records[t]) :
           \A f \in NumericFields : records[t][m][f].k # "none"
    /\ \A t \in Threads : \A m \in 1..Len(txn[t].rows) :
           \A f \in NumericFields : txn[t].rows[m].data[f].k # "none"
    /\ \A m \in 1..Len(db) :
           \A f \in NumericFields : db[m].data[f].k # "none"

\* a committed row of an entry whose numeric sub-fields were null (Peru) and
\* one of an entry that had none (Chad), both stored as zeros
C7_Witness ==
    /\ \E i \in 1..Len(log) :
           /\ log[i].ev = "begin" /\ log[i].upstream.kind = "ok"
           /\ log[i].upstream.json =
                  PyDict([response |-> PyList(<<SysEntries.peruNull, SysEntries.chad>>)])
    /\ \E m, n \in 1..Len(db) :
           /\ db[m].data.country = PyStr(Peru) /\ db[n].data.country = PyStr(Chad)
           /\ \A f \in NumericFields : db[m].data[f] \in {PyInt(0), PyFloat(0)}
           /\ \A f \in NumericFields : db[n].data[f] \in {PyInt(0), PyFloat(0)}

\* C8: a request whose upstream fetch fails is answered at once with status
\* 500 and an error message, before the Normalizer and the Reconciler run,
\* and leaves the stored rows as they were.
C8_FetchFailureAborts ==
    \A i \in 1..Len(log) :
        (log[i].ev = "begin" /\ log[i].upstream.kind # "ok")
        => /\ i < Len(log)
           /\ log[i + 1].ev = "end" /\ log[i + 1].thread = log[i].thread
           /\ log[i + 1].response.status = 500
           /\ DOMAIN log[i + 1].response.body = {"error"}
           /\ log[i + 1].outcome = "fetch_failed"
           /\ log[i + 1].batch = <<>>
           /\ log[i + 1].db = log[i].db

\* a failed fetch met with rows in the store
C8_Witness ==
    \E i \in 1..(Len(log) - 1) :
        /\ log[i].ev = "begin" /\ log[i].upstream.kind # "ok"
        /\ log[i + 1].response.status = 500
        /\ Len(log[i].db) > 0 /\ db = log[i].db

\* C10: a committing invocation deletes no row and leaves every row whose
\* country is not in its batch as it was, date_recorded included; the number
\* of stored rows never decreases.
C10_Frame ==
    /\ \A i \in Ends("committed") :
           /\ Len(log[i].db) >= Len(log[i - 1].db)
           /\ \A m \in 1..Len(log[i - 1].db) :
                  /\ log[i].db[m].id = log[i - 1].db[m].id
                  /\ log[i - 1].db[m].data.country \notin Countries(log[i].batch)
                         => log[i].db[m] = log[i - 1].db[m]
    /\ \A i \in 2..Len(log) : Len(log[i].db) >= Len(log[i - 1].db)
    /\ Len(log) > 0 => db = log[Len(log)].db

\* a commit that updates one row of a store holding a row of another country
C10_Witness ==
    \E i \in Ends("committed") :
        /\ Len(log[i].batch) > 0
        /\ \E m, n \in 1..Len(log[i - 1].db) :
               /\ log[i - 1].db[m].data.country \notin Countries(log[i].batch)
               /\ log[i - 1].db[n].data.country \in Countries(log[i].batch)
               /\ log[i].db[n] # log[i - 1].db[n]

-----------------------------------------------------------------------------
(* NormSpec: clean_and_transform_data applied to each payload *)

NormInit ==
    /\ raw_input \in Payloads
    /\ cleaned_output = Raise
    /\ norm_pc = "call"
    /\ SysStart

Normalize ==
    /\ norm_pc = "call"
    /\ cleaned_output' = clean_and_transform_data(raw_input)
    /\ norm_pc' = "done"
    /\ UNCHANGED <<raw_input, sysVars>>

NormNext == Normalize

NormSpec == NormInit /\ [][NormNext]_vars

-----------------------------------------------------------------------------
(* Claims about clean_and_transform_data, under NormSpec *)

HasResponseList == raw_input.k = "dict" /\ "response" \in DOMAIN raw_input.v
                       /\ raw_input.v["response"].k = "list"

\* the entries of the response list that the loop considers
Considered == Prefix(raw_input.v["response"].v, RecordLimit)

\* a payload that is null, empty, or without a list under "response": the
\* key is not there, or is there with null
LacksList ==
    \/ raw_input.k = "none"
    \/ raw_input.k \in {"dict", "list"} /\ ~Truthy(raw_input)
    \/ raw_input.k = "dict" /\ "response" \notin DOMAIN raw_input.v
    \/ raw_input.k = "dict" /\ "response" \in DOMAIN raw_input.v
           /\ raw_input.v["response"].k = "none"

\* C5: for a payload that is null, empty, or lacks the list field (the field
\* present but null included), the Normalizer returns the empty sequence and
\* raises nothing.
C5_MissingListGivesEmpty ==
    (norm_pc = "done" /\ LacksList) => cleaned_output = Return(<<>>)

\* an entry whose country name is missing, "All" or "Unknown"
Placeholder(e) ==
    /\ e.k = "dict"
    /\ \/ "country" \notin DOMAIN e.v
       \/ e.v["country"].k = "none"
       \/ e.v["country"].k = "str" /\ e.v["country"].v \in {All, Unknown}

NotPlaceholder(e) == ~Placeholder(e)

\* C6: no output record comes from an entry whose country name is missing,
\* "All" or "Unknown": the output is the one the considered entries give
\* without them, and is no longer than their number.
C6_PlaceholdersExcluded ==
    (norm_pc = "done" /\ HasResponseList)
    => LET others == SelectSeq(Considered, NotPlaceholder) IN
       /\ cleaned_output.k = "return"
       /\ Len(cleaned_output.v) <= Len(others)
       /\ cleaned_output = clean_and_transform_data(PyDict([response |-> PyList(others)]))

\* a list longer than the limit, with entries named "All" among real ones
C6_Witness ==
    /\ norm_pc = "done" /\ HasResponseList
    /\ Len(raw_input.v["response"].v) > RecordLimit
    /\ \E i \in 1..Len(Considered) : Placeholder(Considered[i])
    /\ cleaned_output.k = "return" /\ Len(cleaned_output.v) > 0
    /\ Len(cleaned_output.v) < Len(Considered)

Processable(e) == CleanRecord(e).k = "ok"

\* C9: an entry whose processing fails is skipped and the batch goes on: the
\* output is, in input order, the cleaned record of each considered entry
\* that neither fails nor is skipped.
C9_FailureIsolation ==
    (norm_pc = "done" /\ HasResponseList)
    => LET good == SelectSeq(Considered, Processable) IN
       /\ cleaned_output.k = "return"
       /\ cleaned_output.v = [i \in 1..Len(good) |-> CleanRecord(good[i]).v]

\* a list longer than the limit with a failing entry between good ones of
\* two countries: the output holds every good one, the last included
C9_Witness ==
    /\ norm_pc = "done" /\ HasResponseList
    /\ Len(raw_input.v["response"].v) > RecordLimit
    /\ Processable(Considered[1])
    /\ CleanRecord(Considered[RecordLimit - 1]).k = "raise"
    /\ Processable(Considered[RecordLimit])
    /\ cleaned_output.k = "return" /\ Len(cleaned_output.v) = RecordLimit - 1
    /\ cleaned_output.v[1].country # cleaned_output.v[RecordLimit - 1].country

====
